---- MODULE Spec2Model ----
(***************************************************************************)
(* Model of osm-house-generator (src/main.py): the deduplicating log store *)
(* HousesManager, the bounded-retry client OSMAPIClient and the            *)
(* orchestrator HouseOSMGenerator.                                         *)
(*                                                                         *)
(* Python strings are sequences of one-character strings, so that          *)
(* str.replace, str.split, ', '.join and the f-string conversions are      *)
(* computed and not assumed.  Coordinates are integers counting 1e-7       *)
(* degrees, formatted as the double nearest to them is.                    *)
(***************************************************************************)
EXTENDS Integers, Sequences, FiniteSets, TLC

VARIABLES
    houses_file,         \* HousesManager: content of osm_houses/houses_osm.txt
    existing_addresses,  \* HousesManager.existing_addresses
    outcomes,            \* history: per address, the outcome of each add_house
    last,                \* history: the last HousesManager call and its result
    request_count,       \* OSMAPIClient.request_count
    error_count,         \* OSMAPIClient.error_count
    json_error_is_request_exception, \* installed requests: JSONDecodeError <: RequestException
    reply,               \* history: the last OSMAPIClient call and its result
    run                  \* HouseOSMGenerator.generate_houses: position, locals, history

vars == <<houses_file, existing_addresses, outcomes, last,
          request_count, error_count, json_error_is_request_exception, reply,
          run>>

store_vars == <<houses_file, existing_addresses, outcomes, last>>

client_vars == <<request_count, error_count, json_error_is_request_exception, reply>>

(***************************************************************************)
(* Bounds of the model.                                                    *)
(***************************************************************************)
MaxCalls == 3

MaxRequests == 2

MaxElements == 3

MaxRetries == 3

MaxCount == 2

MaxRuns == 2

(***************************************************************************)
(* Python string operations.                                               *)
(***************************************************************************)
RECURSIVE Cat(_)
Cat(parts) ==
    IF parts = <<>> THEN <<>> ELSE Head(parts) \o Cat(Tail(parts))

\* sep.join(parts)
RECURSIVE Join(_, _)
Join(sep, parts) ==
    IF parts = <<>> THEN <<>>
    ELSE IF Len(parts) = 1 THEN parts[1]
    ELSE parts[1] \o sep \o Join(sep, Tail(parts))

\* s.replace(old, new) for one-character old and new
Replace(s, old, new) ==
    [i \in 1..Len(s) |-> IF s[i] = old THEN new ELSE s[i]]

\* whether sep starts at index i of s
MatchAt(s, sep, i) ==
    /\ i + Len(sep) - 1 <= Len(s)
    /\ \A k \in 1..Len(sep) : s[i + k - 1] = sep[k]

\* needle in s (substring test of two str values)
Contains(s, needle) ==
    \E i \in 1..(Len(s) + 1) : MatchAt(s, needle, i)

\* s.split(sep): leftmost non-overlapping occurrences of sep
RECURSIVE SplitFrom(_, _, _, _)
SplitFrom(s, sep, i, cur) ==
    IF i > Len(s) THEN <<cur>>
    ELSE IF MatchAt(s, sep, i)
         THEN <<cur>> \o SplitFrom(s, sep, i + Len(sep), <<>>)
         ELSE SplitFrom(s, sep, i + 1, Append(cur, s[i]))

Split(s, sep) == SplitFrom(s, sep, 1, <<>>)

DigitChar(d) == <<"0", "1", "2", "3", "4", "5", "6", "7", "8", "9">>[d + 1]

\* str(n) for a natural number n
RECURSIVE Digits(_)
Digits(n) ==
    IF n < 10 THEN <<DigitChar(n)>>
    ELSE Append(Digits(n \div 10), DigitChar(n % 10))

\* n rendered with at least w digits, zero padded (%02d, %04d, the fraction of %.6f)
Pad(n, w) ==
    LET d == Digits(n) IN [i \in 1..(w - Len(d)) |-> "0"] \o d

\* 1e7: the coordinates are integers counting 1e-7 degrees
TenTo7 == 10000000

\* the binary exponent of the double m * 1e-7 (0 < m < 2^31):
\* 2^j <= m * 1e-7 < 2^(j+1)
RECURSIVE DoublingsTo(_, _)
DoublingsTo(v, t) == IF v >= TenTo7 THEN t ELSE DoublingsTo(2 * v, t + 1)

BinaryExponent(m) ==
    IF m >= TenTo7
    THEN LET pow2 == <<1, 2, 4, 8, 16, 32, 64, 128>> IN
         CHOOSE j \in 0..7 :
             /\ TenTo7 * pow2[j + 1] <= m
             /\ j = 7 \/ m < TenTo7 * pow2[j + 2]
    ELSE -DoublingsTo(2 * m, 1)

\* (v * 2^k) mod 1e7
RECURSIVE ShiftMod(_, _)
ShiftMod(v, k) == IF k = 0 THEN v ELSE ShiftMod((2 * v) % TenTo7, k - 1)

\* the digit a decimal tie m * 1e-7 (seventh decimal 5) is rounded with: the
\* double nearest to it, a 53-bit integer times a power of two, lies below
\* it ("down"), above it ("up") or is the value itself ("even": the
\* formatting then rounds half to even)
TieRounding(m) ==
    LET r == ShiftMod(m % TenTo7, 52 - BinaryExponent(m)) IN
    IF r = 0 THEN "even" ELSE IF 2 * r < TenTo7 THEN "down" ELSE "up"

\* f"{x:.6f}" for the double x nearest to n * 1e-7
Format6f(n) ==
    LET m  == IF n < 0 THEN -n ELSE n
        q0 == m \div 10
        q  == IF m % 10 < 5 THEN q0
              ELSE IF m % 10 > 5 THEN q0 + 1
              ELSE LET how == TieRounding(m) IN
                   IF how = "down" THEN q0
                   ELSE IF how = "up" THEN q0 + 1
                   ELSE q0 + (q0 % 2)
        ip == q \div 1000000
        fp == q % 1000000
    IN  (IF n < 0 THEN <<"-">> ELSE <<>>) \o Digits(ip) \o <<".">> \o Pad(fp, 6)

\* datetime.strftime('%Y-%m-%d %H:%M:%S')
strftime(t) ==
    Pad(t.year, 4) \o <<"-">> \o Pad(t.month, 2) \o <<"-">> \o Pad(t.day, 2) \o
    <<" ">> \o Pad(t.hour, 2) \o <<":">> \o Pad(t.minute, 2) \o <<":">> \o
    Pad(t.second, 2)

(***************************************************************************)
(* HousesManager                                                           *)
(***************************************************************************)
SEP == <<" ", "|", " ">>

NL == <<"\n">>

HEADER_COLUMNS ==
    << <<"D", "a", "t", "e">>,
       <<"C", "o", "u", "n", "t", "r", "y">>,
       <<"C", "i", "t", "y">>,
       <<"A", "d", "d", "r", "e", "s", "s">>,
       <<"L", "a", "t", "i", "t", "u", "d", "e">>,
       <<"L", "o", "n", "g", "i", "t", "u", "d", "e">>,
       <<"O", "S", "M", "_", "I", "D">>,
       <<"B", "u", "i", "l", "d", "i", "n", "g", "_", "T", "y", "p", "e">>,
       <<"L", "e", "v", "e", "l", "s">> >>

\* the two lines __init__ writes after truncating the file
HEADER == Join(SEP, HEADER_COLUMNS) \o NL \o [i \in 1..100 |-> "="] \o NL

\* the f-string of add_house
format_line(timestamp, country, city, clean_address, data) ==
    Join(SEP, << timestamp, country, city, clean_address,
                 Format6f(data.lat), Format6f(data.lng), Digits(data.osm_id),
                 data.building_type, data.levels >>) \o NL

Min(a, b) == IF a <= b THEN a ELSE b

\* what reaches the file when open(..., 'a') or the write of lines 263-264
\* fails: nothing (the open fails), or the first io.written characters of
\* the line (the flush at close fails)
partial(line, io) == SubSeq(line, 1, Min(io.written, Len(line)))

\* add_house without line 266: the accepted address is never remembered
add_house_forgets(seen, file, country, city, data, now, io) ==
    LET address == data.address IN
    IF address = <<>> \/ address \in seen
    THEN [ret |-> FALSE, file |-> file, seen |-> seen, line |-> <<>>,
          raised |-> FALSE, propagated |-> FALSE]
    ELSE LET line == format_line(strftime(now), country, city,
                                 Replace(address, "|", ","), data)
         IN  IF io.ok
             THEN [ret |-> TRUE, file |-> file \o line, seen |-> seen,
                   line |-> line, raised |-> FALSE, propagated |-> FALSE]
             ELSE [ret |-> FALSE, file |-> file \o partial(line, io),
                   seen |-> seen, line |-> <<>>,
                   raised |-> TRUE, propagated |-> FALSE]

\* add_house remembering the address before the test of line 255
add_house_remembers_first(seen, file, country, city, data, now, io) ==
    LET address == data.address IN
    IF address = <<>> \/ address \in seen
    THEN [ret |-> FALSE, file |-> file, seen |-> seen \cup {address},
          line |-> <<>>, raised |-> FALSE, propagated |-> FALSE]
    ELSE LET line == format_line(strftime(now), country, city,
                                 Replace(address, "|", ","), data)
         IN  IF io.ok
             THEN [ret |-> TRUE, file |-> file \o line,
                   seen |-> seen \cup {address}, line |-> line,
                   raised |-> FALSE, propagated |-> FALSE]
             ELSE [ret |-> FALSE, file |-> file \o partial(line, io),
                   seen |-> seen, line |-> <<>>,
                   raised |-> TRUE, propagated |-> FALSE]

\* add_house with line 266 moved before the write of lines 263-264
add_house_remembers_before_write(seen, file, country, city, data, now, io) ==
    LET address == data.address IN
    IF address = <<>> \/ address \in seen
    THEN [ret |-> FALSE, file |-> file, seen |-> seen, line |-> <<>>,
          raised |-> FALSE, propagated |-> FALSE]
    ELSE LET line == format_line(strftime(now), country, city,
                                 Replace(address, "|", ","), data)
         IN  IF io.ok
             THEN [ret |-> TRUE, file |-> file \o line,
                   seen |-> seen \cup {address}, line |-> line,
                   raised |-> FALSE, propagated |-> FALSE]
             ELSE [ret |-> FALSE, file |-> file \o partial(line, io),
                   seen |-> seen \cup {address},
                   line |-> <<>>, raised |-> TRUE, propagated |-> FALSE]

\* add_house as a function of the store's state and its inputs; io.ok is
\* whether open(..., 'a') and the write succeed, io.written how much of the
\* line is in the file when they do not.  raised: an exception was caught
\* by the method's except clause; propagated: one left the method.
add_house_result(seen, file, country, city, data, now, io) ==
    LET address == data.address IN
    IF address = <<>> \/ address \in seen
    THEN [ret |-> FALSE, file |-> file, seen |-> seen, line |-> <<>>,
          raised |-> FALSE, propagated |-> FALSE]
    ELSE LET timestamp     == strftime(now)
             clean_address == Replace(address, "|", ",")
             line == format_line(timestamp, country, city, clean_address, data)
         IN  IF io.ok
             THEN [ret |-> TRUE, file |-> file \o line,
                   seen |-> seen \cup {address}, line |-> line,
                   raised |-> FALSE, propagated |-> FALSE]
             ELSE [ret |-> FALSE, file |-> file \o partial(line, io),
                   seen |-> seen, line |-> <<>>,
                   raised |-> TRUE, propagated |-> FALSE]

\* f.readlines() of a file opened in text mode with universal newlines: a
\* line ends at "\n", at "\r\n" or at a "\r" alone, and each of them is read
\* as "\n"
readlines(content) ==
    LET n == Len(content)
        ends == {i \in 1..n :
                    \/ content[i] = "\n"
                    \/ content[i] = "\r" /\ ~(i < n /\ content[i + 1] = "\n")}
        stops == ends \cup (IF n > 0 /\ n \notin ends THEN {n} ELSE {})
        start(e) == IF \E p \in stops : p < e
                    THEN 1 + CHOOSE p \in stops :
                             p < e /\ \A r \in stops : r < e => r <= p
                    ELSE 1
        nth(k) == CHOOSE e \in stops : Cardinality({p \in stops : p <= e}) = k
        text(b, e) ==
            IF e \notin ends THEN SubSeq(content, b, e)
            ELSE IF content[e] = "\n" /\ e > b /\ content[e - 1] = "\r"
            THEN SubSeq(content, b, e - 2) \o NL
            ELSE SubSeq(content, b, e - 1) \o NL
    IN  [k \in 1..Cardinality(stops) |-> text(start(nth(k)), nth(k))]

Max(a, b) == IF a >= b THEN a ELSE b

\* get_stats()["total"]; read_ok is whether the file can be opened and read
get_stats_total(content, read_ok) ==
    IF read_ok THEN Max(0, Len(readlines(content)) - 2) ELSE 0

(***************************************************************************)
(* Inputs of the store.                                                    *)
(***************************************************************************)
Addresses ==
    { <<>>,
      <<"M", " ", "1">>,
      <<"M", "|", "1">>,
      <<"M", ",", "1">>,
      <<"|", "|">>,
      <<"M", "\n", "1">>,
      <<"M", "\r", "1">> }

\* the outcomes of the append: done, failing at open, failing at the flush
\* with the first 10 characters of the line written
IOOutcomes ==
    { [ok |-> TRUE, written |-> 0], [ok |-> FALSE, written |-> 0],
      [ok |-> FALSE, written |-> 10] }

\* the other arguments of a call: labels, clock reading and record fields
Variants ==
    { [country |-> <<"D", "E">>, city |-> <<"B", "e", "r", "l", "i", "n">>,
       now |-> [year |-> 2024, month |-> 1, day |-> 1,
                hour |-> 12, minute |-> 0, second |-> 0],
       lat |-> 525200004, lng |-> 134050015, osm_id |-> 123456789,
       building_type |-> <<"r", "e", "s", "i", "d", "e", "n", "t", "i", "a", "l">>,
       levels |-> <<"3">>],
      [country |-> <<"A", "U">>, city |-> <<"P", "e", "r", "t", "h">>,
       now |-> [year |-> 2026, month |-> 10, day |-> 29,
                hour |-> 9, minute |-> 5, second |-> 59],
       lat |-> -319999996, lng |-> 1158500002, osm_id |-> 7,
       building_type |-> <<"h", "o", "u", "s", "e">>,
       levels |-> <<"1", " ", "|", " ", "2">>] }

Record(address, v) ==
    [address |-> address, lat |-> v.lat, lng |-> v.lng, osm_id |-> v.osm_id,
     building_type |-> v.building_type, levels |-> v.levels]

NoCall ==
    [op |-> "none", ret |-> FALSE, address |-> <<>>, line |-> <<>>,
     raised |-> FALSE, propagated |-> FALSE, read_ok |-> TRUE, total |-> 0]

RECURSIVE SumLen(_, _)
SumLen(f, S) ==
    IF S = {} THEN 0
    ELSE LET x == CHOOSE y \in S : TRUE IN Len(f[x]) + SumLen(f, S \ {x})

NumCalls == SumLen(outcomes, Addresses)

(***************************************************************************)
(* Actions of the store.                                                   *)
(***************************************************************************)
add_house(address, v, io) ==
    LET r == add_house_result(existing_addresses, houses_file,
                              v.country, v.city, Record(address, v), v.now, io)
    IN  /\ NumCalls < MaxCalls
        /\ houses_file' = r.file
        /\ existing_addresses' = r.seen
        /\ outcomes' = [outcomes EXCEPT ![address] =
               Append(@, IF r.raised THEN "X" ELSE IF r.ret THEN "T" ELSE "F")]
        /\ last' = [op |-> "add_house", ret |-> r.ret, address |-> address,
                    line |-> r.line, raised |-> r.raised,
                    propagated |-> r.propagated, read_ok |-> TRUE, total |-> 0]
        /\ UNCHANGED <<client_vars, run>>

get_stats(read_ok) ==
    /\ last' = [NoCall EXCEPT !.op = "get_stats", !.read_ok = read_ok,
                              !.total = get_stats_total(houses_file, read_ok)]
    /\ UNCHANGED <<houses_file, existing_addresses, outcomes>>
    /\ UNCHANGED <<client_vars, run>>

(***************************************************************************)
(* OSMAPIClient: what one request attempt meets.  exc is the exception     *)
(* session.post / session.get raises ("none": a response came back),       *)
(* status_code the response's status, json_ok whether its body is JSON.    *)
(***************************************************************************)
ConnectionError == [exc |-> "ConnectionError", status_code |-> 0, json_ok |-> FALSE]

OtherError == [exc |-> "ValueError", status_code |-> 0, json_ok |-> FALSE]

HTTP429 == [exc |-> "none", status_code |-> 429, json_ok |-> TRUE]

HTTP500 == [exc |-> "none", status_code |-> 500, json_ok |-> FALSE]

BadJSON == [exc |-> "none", status_code |-> 200, json_ok |-> FALSE]

OK == [exc |-> "none", status_code |-> 200, json_ok |-> TRUE]

AttemptOutcomes == {ConnectionError, OtherError, HTTP429, HTTP500, BadJSON, OK}

\* requests.Response.raise_for_status: HTTPError (a RequestException) for 4xx and 5xx
raise_for_status(status_code) == status_code \in 400..599

\* the try block with an HTTPError taken for an unexpected exception
attempt_result_http_unexpected(outcome, json_rx) ==
    IF outcome.exc = "ConnectionError" THEN "RequestException"
    ELSE IF outcome.exc # "none" THEN "Exception"
    ELSE IF raise_for_status(outcome.status_code) THEN "Exception"
    ELSE IF outcome.status_code = 429 THEN "rate_limited"
    ELSE IF ~outcome.json_ok
         THEN (IF json_rx THEN "RequestException" ELSE "Exception")
    ELSE "json"

\* the try block with every exception handled as a network error
attempt_result_retry_all(outcome, json_rx) ==
    IF outcome.exc # "none" THEN "RequestException"
    ELSE IF raise_for_status(outcome.status_code) THEN "RequestException"
    ELSE IF outcome.status_code = 429 THEN "rate_limited"
    ELSE IF ~outcome.json_ok THEN "RequestException"
    ELSE "json"

\* lines 137-161: how one pass of the try block ends.  json_rx: the installed
\* requests raises a RequestException subclass from response.json()
attempt_result(outcome, json_rx) ==
    IF outcome.exc = "ConnectionError" THEN "RequestException"
    ELSE IF outcome.exc # "none" THEN "Exception"
    ELSE IF raise_for_status(outcome.status_code) THEN "RequestException"
    ELSE IF outcome.status_code = 429 THEN "rate_limited"
    ELSE IF ~outcome.json_ok
         THEN (IF json_rx THEN "RequestException" ELSE "Exception")
    ELSE "json"

\* lines 148-150 and 157-158: the argument of time.sleep after the attempt
\* with 0-based index attempt (0: time.sleep is not called)
wait_after(how, attempt, max_retries) ==
    IF how = "rate_limited" THEN 10 * (attempt + 1)
    ELSE IF how = "RequestException" /\ attempt < max_retries - 1
         THEN 3 * (attempt + 1)
    ELSE 0

\* the for loop of _make_request from index attempt on; script[i] is what
\* the i-th attempt meets
RECURSIVE make_request_loop(_, _, _, _, _)
make_request_loop(attempt, max_retries, script, json_rx, waits) ==
    IF attempt >= max_retries
    THEN [got_json |-> FALSE, attempts |-> attempt, waits |-> waits]
    ELSE LET how == attempt_result(script[attempt + 1], json_rx)
             w   == Append(waits, wait_after(how, attempt, max_retries))
         IN  IF how = "json"
             THEN [got_json |-> TRUE, attempts |-> attempt + 1, waits |-> w]
             ELSE IF how = "Exception"
             THEN [got_json |-> FALSE, attempts |-> attempt + 1, waits |-> w]
             ELSE make_request_loop(attempt + 1, max_retries, script, json_rx, w)

(***************************************************************************)
(* JSON values as Python objects: a record with the type name under py and *)
(* the value under a field named after the type.  A dict is a record       *)
(* holding exactly its keys, with the keys in insertion order (the order   *)
(* of the JSON text) beside it; a list is a sequence, a str a sequence of  *)
(* characters.                                                             *)
(***************************************************************************)
None == [py |-> "NoneType"]

PyInt(n) == [py |-> "int", int |-> n]

PyBool(b) == [py |-> "bool", bool |-> b]

PyStr(s) == [py |-> "str", str |-> s]

PyList(items) == [py |-> "list", list |-> items]

PyDict(keys, d) == [py |-> "dict", keys |-> keys, dict |-> d]

EmptyDict == [py |-> "dict", keys |-> <<>>, dict |-> <<>>]

ELEMENTS == <<"e", "l", "e", "m", "e", "n", "t", "s">>

\* bool(x)
Truthy(x) ==
    CASE x.py = "NoneType" -> FALSE
      [] x.py = "bool" -> x.bool
      [] x.py = "int"  -> x.int # 0
      [] x.py = "str"  -> x.str # <<>>
      [] x.py = "list" -> x.list # <<>>
      [] x.py = "dict" -> DOMAIN x.dict # {}

\* 'elements' in x: "True", "False" or "TypeError"
in_elements(x) ==
    CASE x.py = "dict" ->
            (IF "elements" \in DOMAIN x.dict THEN "True" ELSE "False")
      [] x.py = "str" ->
            (IF Contains(x.str, ELEMENTS) THEN "True" ELSE "False")
      [] x.py = "list" ->
            (IF \E i \in 1..Len(x.list) : x.list[i].py = "str" /\ x.list[i].str = ELEMENTS
             THEN "True" ELSE "False")
      [] OTHER -> "TypeError"

\* the keys of a dict in insertion order, as str objects (a key is written
\* as one symbol)
KeyList(keys) == [i \in 1..Len(keys) |-> PyStr(<<keys[i]>>)]

\* what `for element in x` iterates over; ok is FALSE (a TypeError) when x
\* is not iterable
iterate(x) ==
    CASE x.py = "list" -> [ok |-> TRUE, items |-> x.list]
      [] x.py = "str"  -> [ok |-> TRUE,
                           items |-> [i \in 1..Len(x.str) |-> PyStr(<<x.str[i]>>)]]
      [] x.py = "dict" -> [ok |-> TRUE, items |-> KeyList(x.keys)]
      [] OTHER -> [ok |-> FALSE, items |-> <<>>]

NA == <<"N", "/", "A">>

\* tags.get(key, default) on a dict of str values
tag(tags, key, default) == IF key \in DOMAIN tags THEN tags[key] ELSE default

TagOrder == <<"addr_street", "addr_housenumber", "addr_postcode", "addr_city">>

\* lines 204-214: the present address tags in order, empty ones filtered
\* out, joined with ", "
RECURSIVE address_parts(_, _)
address_parts(tags, i) ==
    IF i > Len(TagOrder) THEN <<>>
    ELSE (IF TagOrder[i] \in DOMAIN tags /\ tags[TagOrder[i]] # <<>>
          THEN <<tags[TagOrder[i]]>> ELSE <<>>) \o address_parts(tags, i + 1)

build_address(tags) == Join(<<",", " ">>, address_parts(tags, 1))

Building(address, lat, lng, osm_id, building_type, levels) ==
    [address |-> address, lat |-> lat, lng |-> lng, osm_id |-> osm_id,
     building_type |-> building_type, levels |-> levels]

NoBuilding == Building(<<>>, 0, 0, 0, <<>>, <<>>)

\* lines 191-227, the body of the loop for one element: "building" with the
\* record appended, "continue" (skipped), or "except" (an exception raised
\* and caught by the loop's except clause)
parse_element(element) ==
    IF element.py # "dict"
    THEN [how |-> "except", building |-> NoBuilding]
    ELSE LET e    == element.dict
             tags == IF "tags" \in DOMAIN e THEN e.tags ELSE <<>>
         IN
         IF tag(tags, "addr_housenumber", <<>>) = <<>>
                \/ tag(tags, "addr_street", <<>>) = <<>>
         THEN [how |-> "continue", building |-> NoBuilding]
         ELSE IF "type" \notin DOMAIN e
         THEN [how |-> "except", building |-> NoBuilding]
         ELSE IF e.type = "node" /\ ~({"lat", "lon"} \subseteq DOMAIN e)
         THEN [how |-> "except", building |-> NoBuilding]
         ELSE IF e.type # "node" /\ "center" \notin DOMAIN e
         THEN [how |-> "continue", building |-> NoBuilding]
         ELSE IF e.type # "node" /\ ~({"lat", "lon"} \subseteq DOMAIN e.center)
         THEN [how |-> "except", building |-> NoBuilding]
         ELSE IF "id" \notin DOMAIN e
         THEN [how |-> "except", building |-> NoBuilding]
         ELSE [how |-> "building",
               building |->
                   Building(build_address(tags),
                            IF e.type = "node" THEN e.lat ELSE e.center.lat,
                            IF e.type = "node" THEN e.lon ELSE e.center.lon,
                            e.id,
                            tag(tags, "building", NA),
                            tag(tags, "building_levels", NA))]

\* the loop of lines 190-227 with the except clause leaving the loop
RECURSIVE parse_elements_abort(_)
parse_elements_abort(items) ==
    IF items = <<>> THEN <<>>
    ELSE LET r == parse_element(Head(items)) IN
         IF r.how = "except" THEN <<>>
         ELSE (IF r.how = "building" THEN <<r.building>> ELSE <<>>)
                  \o parse_elements_abort(Tail(items))

\* the loop of lines 190-227 over the elements
RECURSIVE parse_elements(_)
parse_elements(items) ==
    IF items = <<>> THEN <<>>
    ELSE LET r == parse_element(Head(items)) IN
         (IF r.how = "building" THEN <<r.building>> ELSE <<>>)
             \o parse_elements(Tail(items))

\* lines 185-230 on the value _make_request returned: the list returned, or
\* the exception that leaves get_residential_buildings
parse_response(data) ==
    IF ~Truthy(data) THEN [result |-> <<>>, propagated |-> "none"]
    ELSE IF in_elements(data) = "TypeError"
    THEN [result |-> <<>>, propagated |-> "TypeError"]
    ELSE IF in_elements(data) = "False"
    THEN [result |-> <<>>, propagated |-> "none"]
    ELSE IF data.py # "dict"
    THEN [result |-> <<>>, propagated |-> "TypeError"]
    ELSE LET it == iterate(data.dict.elements) IN
         IF ~it.ok THEN [result |-> <<>>, propagated |-> "TypeError"]
         ELSE [result |-> parse_elements(it.items), propagated |-> "none"]

(***************************************************************************)
(* Inputs of the client: elements of a response, and response bodies.      *)
(***************************************************************************)
StreetTags == [addr_street |-> <<"M">>, addr_housenumber |-> <<"1">>]

FullTags ==
    [addr_street |-> <<"K">>, addr_housenumber |-> <<"2">>,
     addr_postcode |-> <<>>, addr_city |-> <<"B">>,
     building |-> <<"h", "o", "u", "s", "e">>, building_levels |-> <<"3">>]

Point == [lat |-> 525200004, lon |-> 134050007]

\* two elements with both tags, coordinates and id, then elements lacking
\* one of them
ElementList ==
    << PyDict(<<"type", "id", "lat", "lon", "tags">>,
              [type |-> "node", id |-> 1, lat |-> 525200004, lon |-> 134050007,
               tags |-> StreetTags]),
       PyDict(<<"type", "id", "center", "tags">>,
              [type |-> "way", id |-> 2, center |-> Point, tags |-> FullTags]),
       PyInt(7),
       PyDict(<<"type", "id", "lat", "lon">>,
              [type |-> "node", id |-> 3, lat |-> 1, lon |-> 2]),
       PyDict(<<"type", "id", "lat", "lon", "tags">>,
              [type |-> "node", id |-> 4, lat |-> 1, lon |-> 2,
               tags |-> [addr_housenumber |-> <<"1">>]]),
       PyDict(<<"type", "id", "tags">>,
              [type |-> "node", id |-> 5, tags |-> StreetTags]),
       PyDict(<<"type", "id", "tags">>,
              [type |-> "way", id |-> 6, tags |-> StreetTags]),
       PyDict(<<"type", "lat", "lon", "tags">>,
              [type |-> "node", lat |-> 1, lon |-> 2, tags |-> StreetTags]),
       PyDict(<<"id", "center", "tags">>,
              [id |-> 8, center |-> Point, tags |-> StreetTags]) >>

\* a batch is given by the indexes of its elements in ElementList
BatchIndexes == UNION { [1..n -> 1..Len(ElementList)] : n \in 0..MaxElements }

Batch(ix) == [i \in 1..Len(ix) |-> ElementList[ix[i]]]

\* bodies that are JSON but hold no list under "elements"
OddPayloads ==
    << None, PyInt(0), PyInt(5), PyBool(TRUE), PyStr(<<>>), PyStr(ELEMENTS),
      PyList(<<>>), PyList(<<PyStr(ELEMENTS)>>), EmptyDict,
      PyDict(<<"remark">>, [remark |-> PyStr(<<"x">>)]),
      PyDict(<<"elements">>, [elements |-> None]),
      PyDict(<<"elements">>, [elements |-> PyInt(5)]),
      PyDict(<<"elements">>, [elements |-> PyStr(<<"a", "b">>)]),
      PyDict(<<"elements">>,
             [elements |-> PyDict(<<"type", "id">>,
                                  [type |-> PyStr(<<"n">>),
                                   id |-> PyStr(<<"1">>)])]) >>

ElementsPayload(ix) == PyDict(<<"elements">>, [elements |-> PyList(Batch(ix))])

DEFAULT_MAX_RETRIES == 2

\* the runs of the loop: what each attempt made meets.  A run ends at the
\* attempt that returns or breaks, or with the max_retries-th attempt.
Ends(outcome, json_rx) == attempt_result(outcome, json_rx) \in {"json", "Exception"}

Runs(max_retries, json_rx) ==
    { script \in UNION { [1..n -> AttemptOutcomes] : n \in 0..max_retries } :
        /\ \A i \in 1..(Len(script) - 1) : ~Ends(script[i], json_rx)
        /\ Len(script) < max_retries => (script # <<>> /\ Ends(script[Len(script)], json_rx)) }

\* _make_request as a function of the client's counters and of the run; body
\* is what response.json() gives when it is reached
make_request_result(rc, ec, max_retries, script, body, json_rx) ==
    LET r == make_request_loop(0, max_retries, script, json_rx, <<>>) IN
    [request_count |-> rc + r.attempts,
     error_count   |-> IF r.got_json THEN ec ELSE ec + 1,
     got_json      |-> r.got_json,
     data          |-> IF r.got_json THEN body ELSE None,
     attempts      |-> r.attempts,
     waits         |-> r.waits]

(***************************************************************************)
(* HouseOSMGenerator: the configuration it resolves its keys in, and the   *)
(* locals of generate_houses.                                              *)
(***************************************************************************)
\* Config.COUNTRIES: per country key the label written to the log and the
\* cities, each with its label and its bounding box in hundredths of a
\* degree; a character outside ASCII is written as its code point
COUNTRIES ==
    (<<"g", "e", "r", "m", "a", "n", "y">> :>
        [name |-> <<"U+1F1E9", "U+1F1EA", " ", "G", "e", "r", "m", "a", "n", "y">>,
         cities |->
             (<<"b", "e", "r", "l", "i", "n">> :>
                 [name |-> <<"B", "e", "r", "l", "i", "n">>,
                  south |-> 5235, north |-> 5265, west |-> 1315, east |-> 1365])
             @@ (<<"m", "u", "n", "i", "c", "h">> :>
                 [name |-> <<"M", "u", "n", "i", "c", "h">>,
                  south |-> 4806, north |-> 4821, west |-> 1145, east |-> 1165])
             @@ (<<"f", "r", "a", "n", "k", "f", "u", "r", "t">> :>
                 [name |-> <<"F", "r", "a", "n", "k", "f", "u", "r", "t">>,
                  south |-> 5000, north |-> 5018, west |-> 840, east |-> 888])])
    @@ (<<"f", "r", "a", "n", "c", "e">> :>
        [name |-> <<"U+1F1EB", "U+1F1F7", " ", "F", "r", "a", "n", "c", "e">>,
         cities |->
             (<<"p", "a", "r", "i", "s">> :>
                 [name |-> <<"P", "a", "r", "i", "s">>,
                  south |-> 4880, north |-> 4892, west |-> 220, east |-> 250])
             @@ (<<"l", "y", "o", "n">> :>
                 [name |-> <<"L", "y", "o", "n">>,
                  south |-> 4573, north |-> 4580, west |-> 480, east |-> 490])
             @@ (<<"m", "a", "r", "s", "e", "i", "l", "l", "e">> :>
                 [name |-> <<"M", "a", "r", "s", "e", "i", "l", "l", "e">>,
                  south |-> 4327, north |-> 4332, west |-> 535, east |-> 543])
             @@ (<<"n", "i", "c", "e">> :>
                 [name |-> <<"N", "i", "c", "e">>,
                  south |-> 4368, north |-> 4373, west |-> 724, east |-> 732])
             @@ (<<"t", "o", "u", "l", "o", "u", "s", "e">> :>
                 [name |-> <<"T", "o", "u", "l", "o", "u", "s", "e">>,
                  south |-> 4358, north |-> 4365, west |-> 141, east |-> 148])])
    @@ (<<"n", "e", "t", "h", "e", "r", "l", "a", "n", "d", "s">> :>
        [name |-> <<"U+1F1F3", "U+1F1F1", " ", "N", "e", "t", "h", "e", "r", "l", "a", "n", "d", "s">>,
         cities |->
             (<<"a", "m", "s", "t", "e", "r", "d", "a", "m">> :>
                 [name |-> <<"A", "m", "s", "t", "e", "r", "d", "a", "m">>,
                  south |-> 5230, north |-> 5242, west |-> 480, east |-> 500])
             @@ (<<"r", "o", "t", "t", "e", "r", "d", "a", "m">> :>
                 [name |-> <<"R", "o", "t", "t", "e", "r", "d", "a", "m">>,
                  south |-> 5188, north |-> 5194, west |-> 440, east |-> 455])
             @@ (<<"u", "t", "r", "e", "c", "h", "t">> :>
                 [name |-> <<"U", "t", "r", "e", "c", "h", "t">>,
                  south |-> 5205, north |-> 5213, west |-> 505, east |-> 515])
             @@ (<<"t", "h", "e", "_", "h", "a", "g", "u", "e">> :>
                 [name |-> <<"T", "h", "e", " ", "H", "a", "g", "u", "e">>,
                  south |-> 5203, north |-> 5210, west |-> 427, east |-> 438])])
    @@ (<<"s", "p", "a", "i", "n">> :>
        [name |-> <<"U+1F1EA", "U+1F1F8", " ", "S", "p", "a", "i", "n">>,
         cities |->
             (<<"m", "a", "d", "r", "i", "d">> :>
                 [name |-> <<"M", "a", "d", "r", "i", "d">>,
                  south |-> 4035, north |-> 4052, west |-> -385, east |-> -355])
             @@ (<<"b", "a", "r", "c", "e", "l", "o", "n", "a">> :>
                 [name |-> <<"B", "a", "r", "c", "e", "l", "o", "n", "a">>,
                  south |-> 4130, north |-> 4147, west |-> 200, east |-> 225])
             @@ (<<"v", "a", "l", "e", "n", "c", "i", "a">> :>
                 [name |-> <<"V", "a", "l", "e", "n", "c", "i", "a">>,
                  south |-> 3940, north |-> 3953, west |-> -45, east |-> -30])])
    @@ (<<"i", "t", "a", "l", "y">> :>
        [name |-> <<"U+1F1EE", "U+1F1F9", " ", "I", "t", "a", "l", "y">>,
         cities |->
             (<<"r", "o", "m", "e">> :>
                 [name |-> <<"R", "o", "m", "e">>,
                  south |-> 4180, north |-> 4195, west |-> 1240, east |-> 1255])
             @@ (<<"m", "i", "l", "a", "n">> :>
                 [name |-> <<"M", "i", "l", "a", "n">>,
                  south |-> 4543, north |-> 4550, west |-> 915, east |-> 925])
             @@ (<<"n", "a", "p", "l", "e", "s">> :>
                 [name |-> <<"N", "a", "p", "l", "e", "s">>,
                  south |-> 4082, north |-> 4088, west |-> 1420, east |-> 1430])
             @@ (<<"t", "u", "r", "i", "n">> :>
                 [name |-> <<"T", "u", "r", "i", "n">>,
                  south |-> 4504, north |-> 4510, west |-> 763, east |-> 773])
             @@ (<<"f", "l", "o", "r", "e", "n", "c", "e">> :>
                 [name |-> <<"F", "l", "o", "r", "e", "n", "c", "e">>,
                  south |-> 4376, north |-> 4379, west |-> 1122, east |-> 1130])])
    @@ (<<"a", "u", "s", "t", "r", "i", "a">> :>
        [name |-> <<"U+1F1E6", "U+1F1F9", " ", "A", "u", "s", "t", "r", "i", "a">>,
         cities |->
             (<<"v", "i", "e", "n", "n", "a">> :>
                 [name |-> <<"V", "i", "e", "n", "n", "a">>,
                  south |-> 4815, north |-> 4827, west |-> 1625, east |-> 1650])
             @@ (<<"g", "r", "a", "z">> :>
                 [name |-> <<"G", "r", "a", "z">>,
                  south |-> 4704, north |-> 4711, west |-> 1538, east |-> 1548])
             @@ (<<"s", "a", "l", "z", "b", "u", "r", "g">> :>
                 [name |-> <<"S", "a", "l", "z", "b", "u", "r", "g">>,
                  south |-> 4778, north |-> 4782, west |-> 1302, east |-> 1308])
             @@ (<<"i", "n", "n", "s", "b", "r", "u", "c", "k">> :>
                 [name |-> <<"I", "n", "n", "s", "b", "r", "u", "c", "k">>,
                  south |-> 4725, north |-> 4728, west |-> 1137, east |-> 1142])])
    @@ (<<"s", "w", "i", "t", "z", "e", "r", "l", "a", "n", "d">> :>
        [name |-> <<"U+1F1E8", "U+1F1ED", " ", "S", "w", "i", "t", "z", "e", "r", "l", "a", "n", "d">>,
         cities |->
             (<<"z", "u", "r", "i", "c", "h">> :>
                 [name |-> <<"Z", "u", "r", "i", "c", "h">>,
                  south |-> 4735, north |-> 4740, west |-> 850, east |-> 860])
             @@ (<<"g", "e", "n", "e", "v", "a">> :>
                 [name |-> <<"G", "e", "n", "e", "v", "a">>,
                  south |-> 4619, north |-> 4625, west |-> 610, east |-> 620])
             @@ (<<"b", "a", "s", "e", "l">> :>
                 [name |-> <<"B", "a", "s", "e", "l">>,
                  south |-> 4754, north |-> 4758, west |-> 756, east |-> 762])
             @@ (<<"b", "e", "r", "n">> :>
                 [name |-> <<"B", "e", "r", "n">>,
                  south |-> 4693, north |-> 4697, west |-> 740, east |-> 748])])
    @@ (<<"a", "u", "s", "t", "r", "a", "l", "i", "a">> :>
        [name |-> <<"U+1F1E6", "U+1F1FA", " ", "A", "u", "s", "t", "r", "a", "l", "i", "a">>,
         cities |->
             (<<"s", "y", "d", "n", "e", "y">> :>
                 [name |-> <<"S", "y", "d", "n", "e", "y">>,
                  south |-> -3400, north |-> -3370, west |-> 15090, east |-> 15130])
             @@ (<<"m", "e", "l", "b", "o", "u", "r", "n", "e">> :>
                 [name |-> <<"M", "e", "l", "b", "o", "u", "r", "n", "e">>,
                  south |-> -3790, north |-> -3775, west |-> 14490, east |-> 14510])
             @@ (<<"b", "r", "i", "s", "b", "a", "n", "e">> :>
                 [name |-> <<"B", "r", "i", "s", "b", "a", "n", "e">>,
                  south |-> -2755, north |-> -2735, west |-> 15295, east |-> 15315])
             @@ (<<"p", "e", "r", "t", "h">> :>
                 [name |-> <<"P", "e", "r", "t", "h">>,
                  south |-> -3205, north |-> -3195, west |-> 11580, east |-> 11595])])
    @@ (<<"c", "a", "n", "a", "d", "a">> :>
        [name |-> <<"U+1F1E8", "U+1F1E6", " ", "C", "a", "n", "a", "d", "a">>,
         cities |->
             (<<"t", "o", "r", "o", "n", "t", "o">> :>
                 [name |-> <<"T", "o", "r", "o", "n", "t", "o">>,
                  south |-> 4360, north |-> 4380, west |-> -7955, east |-> -7925])
             @@ (<<"v", "a", "n", "c", "o", "u", "v", "e", "r">> :>
                 [name |-> <<"V", "a", "n", "c", "o", "u", "v", "e", "r">>,
                  south |-> 4925, north |-> 4930, west |-> -12315, east |-> -12305])
             @@ (<<"m", "o", "n", "t", "r", "e", "a", "l">> :>
                 [name |-> <<"M", "o", "n", "t", "r", "e", "a", "l">>,
                  south |-> 4545, north |-> 4555, west |-> -7370, east |-> -7345])
             @@ (<<"o", "t", "t", "a", "w", "a">> :>
                 [name |-> <<"O", "t", "t", "a", "w", "a">>,
                  south |-> 4530, north |-> 4545, west |-> -7585, east |-> -7565])])

UPPERCASE ==
    <<"A", "B", "C", "D", "E", "F", "G", "H", "I", "J", "K", "L", "M",
      "N", "O", "P", "Q", "R", "S", "T", "U", "V", "W", "X", "Y", "Z">>

LOWERCASE ==
    <<"a", "b", "c", "d", "e", "f", "g", "h", "i", "j", "k", "l", "m",
      "n", "o", "p", "q", "r", "s", "t", "u", "v", "w", "x", "y", "z">>

\* str.lower on one character of a key written in ASCII
lower_char(c) ==
    IF \E i \in 1..26 : UPPERCASE[i] = c
    THEN LOWERCASE[CHOOSE i \in 1..26 : UPPERCASE[i] = c]
    ELSE c

lower(s) == [i \in 1..Len(s) |-> lower_char(s[i])]

\* lines 302-310: the labels of the country and city the keys name; found
\* is FALSE when either lookup gives None
resolve(country_key, city_key) ==
    LET ck == lower(country_key) IN
    IF ck \notin DOMAIN COUNTRIES
    THEN [found |-> FALSE, country |-> <<>>, city |-> <<>>]
    ELSE LET country == COUNTRIES[ck]
             cy      == lower(city_key)
         IN  IF cy \notin DOMAIN country.cities
             THEN [found |-> FALSE, country |-> <<>>, city |-> <<>>]
             ELSE [found |-> TRUE, country |-> country.name,
                   city |-> country.cities[cy].name]

\* no call of generate_houses is running; runs counts the calls made
NoRun(runs) ==
    [pc |-> "idle", runs |-> runs, count |-> 0, limit |-> 0, found |-> FALSE,
     country |-> <<>>, city |-> <<>>, fetched |-> <<>>, shuffled |-> <<>>,
     buildings |-> <<>>, generated |-> 0, calls |-> <<>>, ret |-> FALSE,
     propagated |-> "none", seen_before |-> {}]

NoReply == [op |-> "none"]

Init ==
    /\ houses_file = HEADER
    /\ existing_addresses = {}
    /\ outcomes = [a \in Addresses |-> <<>>]
    /\ last = NoCall
    /\ request_count = 0
    /\ error_count = 0
    /\ json_error_is_request_exception \in BOOLEAN
    /\ reply = NoReply
    /\ run = NoRun(0)

NextStore ==
    \/ \E address \in Addresses, v \in Variants, io \in IOOutcomes :
           add_house(address, v, io)
    \/ \E read_ok \in BOOLEAN : get_stats(read_ok)

SpecStore == Init /\ [][NextStore]_vars

(***************************************************************************)
(* Actions of the client.  reply is the value in the hands of the caller:  *)
(* a call is made when the previous one's value has been dropped.          *)
(***************************************************************************)
Reply(op, method, max_retries, script, m, p) ==
    [op |-> op, method |-> method, max_retries |-> max_retries,
     consumed |-> script, attempts |-> m.attempts, waits |-> m.waits,
     got_json |-> m.got_json, data |-> m.data,
     result |-> p.result, propagated |-> p.propagated,
     request_count_before |-> request_count,
     error_count_before |-> error_count]

\* the caller holds no value of a previous call, and the counters are below
\* the bound of the model
CanCall ==
    /\ reply.op = "none"
    /\ request_count < MaxRequests /\ error_count < MaxRequests

make_request(has_data, max_retries, script, body) ==
    LET m == make_request_result(request_count, error_count, max_retries,
                                 script, body, json_error_is_request_exception)
    IN  /\ CanCall
        /\ request_count' = m.request_count
        /\ error_count' = m.error_count
        /\ reply' = Reply("_make_request", IF has_data THEN "POST" ELSE "GET",
                          max_retries, script, m,
                          [result |-> <<>>, propagated |-> "none"])
        /\ UNCHANGED <<json_error_is_request_exception, store_vars, run>>

get_residential_buildings(script, body) ==
    LET m == make_request_result(request_count, error_count, DEFAULT_MAX_RETRIES,
                                 script, body, json_error_is_request_exception)
    IN  /\ CanCall
        /\ request_count' = m.request_count
        /\ error_count' = m.error_count
        /\ reply' = Reply("get_residential_buildings", "POST",
                          DEFAULT_MAX_RETRIES, script, m, parse_response(m.data))
        /\ UNCHANGED <<json_error_is_request_exception, store_vars, run>>

\* the caller is done with the returned value
caller_continues ==
    /\ reply.op # "none"
    /\ reply' = NoReply
    /\ UNCHANGED <<request_count, error_count, json_error_is_request_exception,
                   store_vars, run>>

\* a body is read only by a run that ends with a response holding JSON
ReadsBody(script) == script # <<>> /\ script[Len(script)] = OK

OddBodies(script) == IF ReadsBody(script) THEN 1..Len(OddPayloads) ELSE {1}

BatchBodies(script) == IF ReadsBody(script) THEN BatchIndexes ELSE {}

NextClient ==
    \/ /\ CanCall
       /\ \E has_data \in BOOLEAN, max_retries \in 0..MaxRetries :
            \E script \in Runs(max_retries, json_error_is_request_exception) :
              \E i \in OddBodies(script) :
                  make_request(has_data, max_retries, script, OddPayloads[i])
    \/ /\ CanCall
       /\ \E script \in Runs(DEFAULT_MAX_RETRIES, json_error_is_request_exception) :
            \/ \E i \in OddBodies(script) :
                   get_residential_buildings(script, OddPayloads[i])
            \/ \E ix \in BatchBodies(script) :
                   get_residential_buildings(script, ElementsPayload(ix))
    \/ caller_continues

SpecClient == Init /\ [][NextClient]_vars

(***************************************************************************)
(* Actions of the generator.  generate_houses is followed through its      *)
(* positions: the lookups and the fetch, each pass of the loop, and the    *)
(* return.                                                                 *)
(***************************************************************************)
\* a key of Config.COUNTRIES in upper case, and a key that is not in it
CountryKeys ==
    { <<"G", "E", "R", "M", "A", "N", "Y">>,
      <<"a", "t", "l", "a", "n", "t", "i", "s">> }

\* a city of Germany and a city of another country
CityKeys == { <<"B", "e", "r", "l", "i", "n">>, <<"p", "e", "r", "t", "h">> }

Counts == 0..MaxCount

\* the reading of datetime.now() inside add_house
Clocks ==
    { [year |-> 2026, month |-> 10, day |-> 29,
       hour |-> 9, minute |-> 5, second |-> 59] }

\* random.shuffle: any order of the list
Shuffles(list) ==
    LET n == Len(list)
        perms == { q \in [1..n -> 1..n] : \A i, j \in 1..n : i # j => q[i] # q[j] }
    IN  { [i \in 1..n |-> list[q[i]]] : q \in perms }

\* the loop with its test of generated against count left out
loop_ends_exhausted(buildings, generated, count) == buildings = <<>>

\* lines 330-332: the loop is left when the list is used up or count
\* records were accepted
loop_ends(buildings, generated, count) ==
    buildings = <<>> \/ generated >= count

\* lines 302-324: the lookups, the fetch with limit = count * 2, the shuffle
generate_houses_fetch(country_key, city_key, count, script, body) ==
    LET where == resolve(country_key, city_key)
        m == make_request_result(request_count, error_count, DEFAULT_MAX_RETRIES,
                                 script, body, json_error_is_request_exception)
        p == parse_response(m.data)
        start == [NoRun(run.runs + 1) EXCEPT
                     !.count = count, !.found = where.found,
                     !.country = where.country, !.city = where.city,
                     !.seen_before = existing_addresses]
    IN  /\ run.pc = "idle"
        /\ run.runs < MaxRuns
        /\ IF ~where.found
           THEN /\ run' = [start EXCEPT !.pc = "done", !.ret = FALSE]
                /\ UNCHANGED <<request_count, error_count>>
           ELSE /\ request_count' = m.request_count
                /\ error_count' = m.error_count
                /\ IF p.propagated # "none"
                   THEN run' = [start EXCEPT !.pc = "raised", !.limit = count * 2,
                                             !.propagated = p.propagated]
                   ELSE IF p.result = <<>>
                   THEN run' = [start EXCEPT !.pc = "done", !.limit = count * 2,
                                             !.ret = FALSE]
                   ELSE \E shuffled \in Shuffles(p.result) :
                            run' = [start EXCEPT !.pc = "loop", !.limit = count * 2,
                                                 !.fetched = p.result,
                                                 !.shuffled = shuffled,
                                                 !.buildings = shuffled]
        /\ UNCHANGED <<json_error_is_request_exception, reply, store_vars>>

\* lines 330-341: one pass of the loop over the shuffled list
generate_houses_pass(now, io) ==
    /\ run.pc = "loop"
    /\ ~loop_ends(run.buildings, run.generated, run.count)
    /\ LET building == Head(run.buildings) IN
       IF building.address = <<>>
       THEN /\ run' = [run EXCEPT !.buildings = Tail(@)]
            /\ UNCHANGED <<houses_file, existing_addresses>>
       ELSE LET r == add_house_result(existing_addresses, houses_file,
                                      run.country, run.city, building, now, io)
            IN  /\ houses_file' = r.file
                /\ existing_addresses' = r.seen
                /\ run' = [run EXCEPT
                       !.buildings = Tail(@),
                       !.generated = IF r.ret THEN @ + 1 ELSE @,
                       !.calls = Append(@, [address |-> building.address,
                                            ret |-> r.ret])]
    /\ UNCHANGED <<outcomes, last, client_vars>>

\* lines 330-352: the loop is left and generate_houses returns
generate_houses_return ==
    /\ run.pc = "loop"
    /\ loop_ends(run.buildings, run.generated, run.count)
    /\ run' = [run EXCEPT !.pc = "done", !.ret = (run.generated > 0)]
    /\ UNCHANGED <<store_vars, client_vars>>

\* the caller is done with the value returned, or with the exception
generator_idle ==
    /\ run.pc \in {"done", "raised"}
    /\ run' = NoRun(run.runs)
    /\ UNCHANGED <<store_vars, client_vars>>

\* the responses with a list under "elements": two elements that parse, one
\* that raises and one that is skipped
CandidateIndexes == UNION { [1..n -> 1..4] : n \in 0..MaxElements }

CandidateBodies(script) == IF ReadsBody(script) THEN CandidateIndexes ELSE {}

NextGenerator ==
    \/ /\ run.pc = "idle" /\ run.runs < MaxRuns
       /\ \E country_key \in CountryKeys, city_key \in CityKeys, count \in Counts :
            IF resolve(country_key, city_key).found
            THEN \E script \in Runs(DEFAULT_MAX_RETRIES,
                                    json_error_is_request_exception) :
                   \/ \E i \in OddBodies(script) :
                          generate_houses_fetch(country_key, city_key, count,
                                                script, OddPayloads[i])
                   \/ \E ix \in CandidateBodies(script) :
                          generate_houses_fetch(country_key, city_key, count,
                                                script, ElementsPayload(ix))
            ELSE generate_houses_fetch(country_key, city_key, count, <<>>, None)
    \/ \E now \in Clocks, io \in IOOutcomes : generate_houses_pass(now, io)
    \/ generate_houses_return
    \/ generator_idle

SpecGenerator == Init /\ [][NextGenerator]_vars

(***************************************************************************)
(* Claims about HousesManager (checked under SpecStore).                   *)
(***************************************************************************)
NonEmptyAddresses == Addresses \ {<<>>}

Accepted(a) == \E i \in 1..Len(outcomes[a]) : outcomes[a][i] = "T"

RECURSIVE CountTrue(_, _)
CountTrue(f, S) ==
    IF S = {} THEN 0
    ELSE LET x == CHOOSE y \in S : TRUE
         IN  Cardinality({i \in 1..Len(f[x]) : f[x][i] = "T"}) + CountTrue(f, S \ {x})

\* the number of add_house calls so far that returned True
NumAccepted == CountTrue(outcomes, Addresses)

C1_History ==
    \A a \in NonEmptyAddresses :
        LET o == outcomes[a] IN
        /\ (o # <<>> /\ o[1] # "X") => o[1] = "T"
        /\ \A i, j \in 1..Len(o) : (i < j /\ o[i] = "T") => o[j] = "F"

C1_Step ==
    (last'.op = "add_house" /\ Accepted(last'.address))
        => (last'.ret = FALSE /\ houses_file' = houses_file)

\* C1 (idempotent dedup): over any sequence of add_house calls, whatever the
\* labels, coordinates and ids, a non-empty address is accepted on its first
\* occurrence (the append not failing, which is C9's case) and never again:
\* every add_house of an already accepted address returns False and leaves
\* the log as it was.
C1_IdempotentDedup == []C1_History /\ [][C1_Step]_vars

\* C1 witness: an address accepted on its first call and rejected on a repeat
C1_Witness ==
    \E a \in NonEmptyAddresses :
        /\ Len(outcomes[a]) >= 2
        /\ outcomes[a][1] = "T" /\ outcomes[a][2] = "F"
        /\ last.op = "add_house" /\ last.address = a /\ last.ret = FALSE

\* C2 (count consistency): get_stats() on a readable log returns as total the
\* number k of add_house calls that returned True, however many returned
\* False.
C2_CountConsistency ==
    (last.op = "get_stats" /\ last.read_ok) => last.total = NumAccepted

HasPipe(s) == \E i \in 1..Len(s) : s[i] = "|"

\* C5 (address sanitization): the line appended for an accepted record whose
\* address holds a pipe carries the address with every pipe replaced by a
\* comma, and splits on " | " into exactly 9 fields.
C5_AddressSanitization ==
    (last.op = "add_house" /\ last.ret /\ HasPipe(last.address)) =>
        LET fields == Split(last.line, SEP) IN
        /\ Len(fields) = 9
        /\ fields[4] = Replace(last.address, "|", ",")

\* C7 (rejection has no effect): add_house of an empty or already seen
\* address returns False, lets no exception out, and leaves the log and the
\* seen-address set as they were.
C7_RejectionNoEffect ==
    [][ (last'.op = "add_house"
            /\ (last'.address = <<>> \/ last'.address \in existing_addresses))
        => /\ last'.ret = FALSE
           /\ last'.propagated = FALSE
           /\ houses_file' = houses_file
           /\ existing_addresses' = existing_addresses ]_vars

\* C7 witness: a duplicate was rejected, after an empty address had been too
C7_Witness ==
    /\ last.op = "add_house" /\ last.ret = FALSE /\ last.raised = FALSE
    /\ last.address # <<>> /\ last.address \in existing_addresses
    /\ outcomes[<<>>] # <<>>

\* C9 (storage failure): when the append fails for a record that would have
\* been accepted, add_house returns False with the exception caught and the
\* address stays out of the seen-address set, so that the first later call
\* for that address whose append works is accepted, not rejected as a
\* duplicate.
C9_StorageFailure ==
    /\ (last.op = "add_house" /\ last.raised) =>
          /\ last.ret = FALSE
          /\ last.propagated = FALSE
          /\ last.address \notin existing_addresses
    /\ \A a \in NonEmptyAddresses :
          \A i \in 1..Len(outcomes[a]) :
              ((\A j \in 1..(i - 1) : outcomes[a][j] = "X") /\ outcomes[a][i] # "X")
                  => outcomes[a][i] = "T"

\* C9 witness: an append failed and the same address was accepted afterwards
C9_Witness ==
    \E a \in NonEmptyAddresses :
        /\ Len(outcomes[a]) >= 2
        /\ outcomes[a][1] = "X" /\ outcomes[a][2] = "T"
        /\ a \in existing_addresses

(***************************************************************************)
(* Claims about OSMAPIClient (checked under SpecClient).                   *)
(***************************************************************************)
ClientCall == reply.op \in {"_make_request", "get_residential_buildings"}

Is429(outcome) == outcome.exc = "none" /\ outcome.status_code = 429

\* the attempt raised an exception that is no RequestException
Unexpected(outcome) ==
    \/ outcome.exc = "ValueError"
    \/ /\ outcome.exc = "none" /\ outcome.status_code = 200 /\ ~outcome.json_ok
       /\ ~json_error_is_request_exception

ReturnedNone == ~reply.got_json /\ reply.data.py = "NoneType"

\* C3 (bounded retries): a call whose every attempt is answered with HTTP 429
\* makes exactly max_retries attempts and returns None (an empty list from
\* get_residential_buildings), with no exception leaving the call.
C3_BoundedRetries ==
    (ClientCall /\ \A i \in 1..Len(reply.consumed) : Is429(reply.consumed[i])) =>
        /\ reply.attempts = reply.max_retries
        /\ Len(reply.consumed) = reply.max_retries
        /\ request_count = reply.request_count_before + reply.max_retries
        /\ ReturnedNone
        /\ reply.propagated = "none"
        /\ reply.result = <<>>

\* C3 witness: get_residential_buildings met HTTP 429 on both of its attempts
C3_Witness ==
    /\ reply.op = "get_residential_buildings"
    /\ reply.consumed = <<HTTP429, HTTP429>>
    /\ reply.result = <<>>

\* C4 (fast fail): an attempt that raises an exception other than a
\* RequestException is the last attempt of its call, whatever max_retries
\* is; the call returns None and error_count grows by one.
C4_FastFail ==
    ClientCall =>
        \A i \in 1..Len(reply.consumed) :
            Unexpected(reply.consumed[i]) =>
                /\ i = reply.attempts
                /\ i = Len(reply.consumed)
                /\ request_count = reply.request_count_before + i
                /\ ReturnedNone
                /\ error_count = reply.error_count_before + 1

\* C4 witness: the second of three allowed attempts raised an unexpected
\* exception and no third was made
C4_Witness ==
    /\ reply.op = "_make_request"
    /\ reply.max_retries = 3
    /\ reply.consumed = <<ConnectionError, OtherError>>
    /\ reply.attempts = 2

\* an element with both tags, resolvable coordinates and an id
WellFormed(element) ==
    /\ element.py = "dict"
    /\ "tags" \in DOMAIN element.dict
    /\ "addr_housenumber" \in DOMAIN element.dict.tags
    /\ element.dict.tags.addr_housenumber # <<>>
    /\ "addr_street" \in DOMAIN element.dict.tags
    /\ element.dict.tags.addr_street # <<>>
    /\ "id" \in DOMAIN element.dict
    /\ "type" \in DOMAIN element.dict
    /\ IF element.dict.type = "node"
       THEN {"lat", "lon"} \subseteq DOMAIN element.dict
       ELSE /\ "center" \in DOMAIN element.dict
            /\ {"lat", "lon"} \subseteq DOMAIN element.dict.center

\* the response body holds a list under "elements"
UsableElements(data) ==
    /\ data.py = "dict"
    /\ "elements" \in DOMAIN data.dict
    /\ data.dict.elements.py = "list"

RECURSIVE WellFormedIds(_)
WellFormedIds(items) ==
    IF items = <<>> THEN <<>>
    ELSE (IF WellFormed(Head(items)) THEN <<Head(items).dict.id>> ELSE <<>>)
             \o WellFormedIds(Tail(items))

\* C6 (skip and continue): for a response whose elements array holds N
\* well-formed elements and malformed ones at any position,
\* get_residential_buildings returns exactly N records, one per well-formed
\* element in response order, each with a non-empty address.
C6_SkipAndContinue ==
    (reply.op = "get_residential_buildings" /\ reply.got_json
        /\ UsableElements(reply.data)) =>
        /\ reply.propagated = "none"
        /\ Len(reply.result) = Len(WellFormedIds(reply.data.dict.elements.list))
        /\ [i \in 1..Len(reply.result) |-> reply.result[i].osm_id]
               = WellFormedIds(reply.data.dict.elements.list)
        /\ \A i \in 1..Len(reply.result) : reply.result[i].address # <<>>

\* C6 witness: one element that raises while parsed, between two well-formed
\* ones, and two records returned
C6_Witness ==
    /\ reply.op = "get_residential_buildings" /\ reply.got_json
    /\ UsableElements(reply.data)
    /\ LET items == reply.data.dict.elements.list IN
       /\ Len(items) = 3
       /\ WellFormed(items[1]) /\ WellFormed(items[3])
       /\ ~WellFormed(items[2]) /\ parse_element(items[2]).how = "except"
    /\ Len(reply.result) = 2

\* C8 (empty result): get_residential_buildings returns an empty list and
\* lets no exception out when all attempts failed, when the body is JSON
\* without a list under "elements", and when no element of the list is
\* well-formed.
C8_EmptyResult ==
    (reply.op = "get_residential_buildings"
        /\ IF reply.got_json /\ UsableElements(reply.data)
           THEN WellFormedIds(reply.data.dict.elements.list) = <<>>
           ELSE TRUE) =>
        /\ reply.result = <<>>
        /\ reply.propagated = "none"

\* C10 (backoff schedule): after attempt i (1-based) is answered with HTTP
\* 429 and another attempt follows, the client sleeps 10*i before it; after
\* attempt i fails with a network error it sleeps 3*i if i < max_retries and
\* does not sleep after the last attempt.
C10_BackoffSchedule ==
    ClientCall =>
        \A i \in 1..reply.attempts :
            /\ (Is429(reply.consumed[i]) /\ i < reply.attempts) =>
                   reply.waits[i] = 10 * i
            /\ reply.consumed[i] = ConnectionError =>
                   reply.waits[i] = IF i < reply.max_retries THEN 3 * i ELSE 0

(***************************************************************************)
(* Claims about HouseOSMGenerator (checked under SpecGenerator).           *)
(***************************************************************************)
\* the number of add_house calls among the first k of the run that returned True
AcceptedAmong(k) == Cardinality({ i \in 1..k : run.calls[i].ret })

\* C11 (orchestration bound): generate_houses with count N asks the client
\* for limit 2*N and feeds the shuffled candidates in order to add_house
\* until N were accepted or none is left; at most N records are accepted (and
\* stored), no add_house call follows the N-th acceptance, and True is
\* returned exactly when at least one record was accepted.
C11_OrchestrationBound ==
    run.pc # "idle" =>
        LET n == Len(run.calls) IN
        /\ (run.found => run.limit = 2 * run.count)
        /\ run.shuffled \in Shuffles(run.fetched)
        /\ \A i \in 1..n : run.calls[i].address = run.shuffled[i].address
        /\ run.buildings = SubSeq(run.shuffled, n + 1, Len(run.shuffled))
        /\ AcceptedAmong(n) <= run.count
        /\ AcceptedAmong(n) = run.generated
        /\ Cardinality(existing_addresses)
               = Cardinality(run.seen_before) + AcceptedAmong(n)
        /\ \A i \in 1..n : AcceptedAmong(i - 1) < run.count
        /\ run.pc = "done" =>
               /\ run.ret = (AcceptedAmong(n) >= 1)
               /\ AcceptedAmong(n) = run.count \/ n = Len(run.shuffled)
        /\ run.pc = "raised" => n = 0

\* C11 witness: count 1 and three candidates; the first was rejected, the
\* second accepted, the third never fed, and True returned
C11_Witness ==
    /\ run.pc = "done" /\ run.ret
    /\ run.count = 1 /\ run.limit = 2
    /\ Len(run.shuffled) = 3
    /\ Len(run.calls) = 2
    /\ ~run.calls[1].ret /\ run.calls[2].ret
    /\ Len(run.buildings) = 1

====
